---- MODULE Spec2Model ----
(***************************************************************************)
(* State-machine model of the ImgComp React component                      *)
(* (src/components/custom/imgcomp.tsx): file selection, dimension probing, *)
(* the debounced auto-compress effect, the asynchronous compress() jobs,   *)
(* the simulated progress timer and the object-URL life cycle.             *)
(*                                                                         *)
(* Every action is one synchronous run of a handler or of the continuation *)
(* of an async function between two awaits, together with the effect that  *)
(* React runs after the resulting render. Spec is the component from mount *)
(* to unmount; FnSpec runs computeTargetSize, the rendering part of        *)
(* compress and canvasToBlob on their own, over sets of arguments.         *)
(***************************************************************************)
EXTENDS Integers, FiniteSets, Sequences, TLC

(*************************** bounds of the model ***************************)
\* user events: file selections, setting changes and resets
MaxEvents == 3
\* compress() invocations (each issues one job token)
MaxJobs == 2
\* length of a selected file list
MaxListLen == 2
\* consecutive setting changes counted by the ghost variable burst
MaxBurst == 2
\* how far below 0 and above 100 the quality percents handed to a job range
QualitySlack == 20

(**************************** program constants ****************************)
MAX_DIMENSION == 4096
DefaultQuality == 70
ProgressStart == 10
ProgressCap == 90
ProgressDone == 100
\* Math.random() * 12 lies in [0, 12): the largest whole step is 11
MaxTickStep == 11

ACCEPTED_TYPES ==
    {"image/jpeg", "image/jpg", "image/png", "image/webp", "image/avif"}

OutputTypes == {"image/png", "image/jpeg", "image/webp", "image/avif"}

\* the quick presets of the quality control
Qualities == {50, 70, 90}

\* JS null for the object-valued pieces of state
Null == [null |-> TRUE]
\* JS null for the error message
NoError == "<null>"
\* JS null for object URLs and interval ids
NoUrl == 0

UnsupportedMsg == "Please choose a supported image: JPEG, PNG, WEBP, or AVIF."
LoadFailedMsg == "Failed to load image."
NoCanvasMsg == "Canvas not supported in this browser."
FetchFailedMsg == "Failed to fetch"
JobMessages == {LoadFailedMsg, NoCanvasMsg, FetchFailedMsg}

\* the files a user can offer (name, declared mime type, size, true pixel size):
\* one of an accepted type, one of a type that is not accepted
Files ==
    { [name |-> "photo.png", type |-> "image/png", size |-> 5000000,
       width |-> 8000, height |-> 2000],
      [name |-> "anim.gif", type |-> "image/gif", size |-> 9000,
       width |-> 64, height |-> 64] }

\* the file lists handed to handleFiles (onDrop / onFileInput pass non-empty lists)
FileLists == UNION { [1..n -> Files] : n \in 1..MaxListLen }

VARIABLES
    status,            \* useState<Status>
    error,             \* useState<string | null>
    file,              \* useState<File | null>
    originalUrl,       \* useState<string | null>
    originalMeta,      \* useState<{name,type,size,width,height} | null>
    compressed,        \* useState<{blob,url,type,size,width,height} | null>
    quality,           \* useState<number>
    progress,          \* useState<number>
    outType,           \* useState<OutputType>
    jobRef,            \* useRef(0): the last job token issued
    progressTimerRef,  \* useRef: id of the progress interval, or null
    intervals,         \* ids of the window.setInterval timers still running
    progressResets,    \* pending setTimeout(() => setProgress(0), 600) callbacks
    debounce,          \* pending setTimeout(() => compress(quality), 180) closures
    probes,            \* handleFiles invocations suspended in the dimension probe
    jobs,              \* compress invocations suspended at an await
    live,              \* object URLs created and not yet revoked
    revokedTwice,      \* object URLs revoked when no longer live
    nextUrl,           \* the next object URL createObjectURL hands out
    events,            \* number of user events so far
    outcome,           \* ghost: what became of each job token
    burst,             \* ghost: setting changes since the timer was armed afresh
    mounted,           \* the component is mounted
    call,              \* a call of a pure function under study, or null
    ret                \* what that call has returned so far, or null

vars == <<status, error, file, originalUrl, originalMeta, compressed, quality,
          progress, outType, jobRef, progressTimerRef, intervals, progressResets,
          debounce, probes, jobs, live, revokedTwice, nextUrl, events,
          outcome, burst, mounted, call, ret>>

\* the state of the component, its timers and its asynchronous work
component == <<status, error, file, originalUrl, originalMeta, compressed,
               quality, progress, outType, jobRef, progressTimerRef, intervals,
               progressResets, debounce, probes, jobs, live, revokedTwice,
               nextUrl, events, outcome, burst, mounted>>

reactState == <<status, error, file, originalUrl, originalMeta, compressed,
                quality, progress, outType>>

(******************************* pure helpers ******************************)
Max(a, b) == IF a >= b THEN a ELSE b
Min(a, b) == IF a <= b THEN a ELSE b

\* Math.round of the non-negative rational n / d
RoundDiv(n, d) == (2 * n + d) \div (2 * d)

\* a || b on numbers
OrElse(a, b) == IF a # 0 THEN a ELSE b

pickOutputType(inputType) ==
    IF inputType \in {"image/png", "image/webp", "image/avif"}
    THEN "image/webp"
    ELSE "image/jpeg"

\* faulty variant: the early return for sources within the limit is missing
computeTargetSize_Upscales(w, h) ==
    IF w = 0 \/ h = 0 THEN [w |-> w, h |-> h]
    ELSE [w |-> RoundDiv(w * MAX_DIMENSION, Max(w, h)),
          h |-> RoundDiv(h * MAX_DIMENSION, Max(w, h))]

\* faulty variant: the scale is taken from the width alone
computeTargetSize_ScalesByWidth(w, h) ==
    IF w = 0 \/ h = 0 THEN [w |-> w, h |-> h]
    ELSE IF w <= MAX_DIMENSION /\ h <= MAX_DIMENSION THEN [w |-> w, h |-> h]
    ELSE [w |-> RoundDiv(w * MAX_DIMENSION, w),
          h |-> RoundDiv(h * MAX_DIMENSION, w)]

\* Math.round is taken on the exact quotient; it rounds a half upwards.
computeTargetSize(w, h) ==
    IF w = 0 \/ h = 0 THEN [w |-> w, h |-> h]
    ELSE IF w <= MAX_DIMENSION /\ h <= MAX_DIMENSION THEN [w |-> w, h |-> h]
    ELSE [w |-> RoundDiv(w * MAX_DIMENSION, Max(w, h)),
          h |-> RoundDiv(h * MAX_DIMENSION, Max(w, h))]

\* arr.find((f) => ACCEPTED_TYPES.includes(f.type)): index of the first accepted
\* file, 0 when there is none
RECURSIVE FindAccepted(_, _)
FindAccepted(arr, i) ==
    IF i > Len(arr) THEN 0
    ELSE IF arr[i].type \in ACCEPTED_TYPES THEN i
    ELSE FindAccepted(arr, i + 1)

\* URL.revokeObjectURL(u) guarded by "if (u)"
LiveAfterRevoke(lv, u) == IF u = NoUrl THEN lv ELSE lv \ {u}
TwiceAfterRevoke(tw, lv, u) ==
    IF u # NoUrl /\ u \notin lv THEN tw \cup {u} ELSE tw

\* compressed?.url
CompressedUrl(c) == IF c = Null THEN NoUrl ELSE c.url

(****************** the auto-compress effect (debounce) ********************)
\* The closure the effect hands to setTimeout: compress and quality of the render
\* that ran the effect.
Closure(f, url, meta, q, t) ==
    [file |-> f, url |-> url, meta |-> meta, q |-> q, type |-> t]

\* faulty variant: the effect has no cleanup, the timers of earlier runs stay armed
AutoCompressEffect_NoCleanup(pending, f, url, meta, q, t) ==
    IF f = Null \/ meta = Null THEN pending
    ELSE pending \cup {Closure(f, url, meta, q, t)}

\* faulty variant: a run of the effect leaves an armed timer and its closure in place
AutoCompressEffect_KeepArmed(pending, f, url, meta, q, t) ==
    IF f = Null \/ meta = Null THEN {}
    ELSE IF pending # {} THEN pending ELSE {Closure(f, url, meta, q, t)}

\* The effect after a render in which one of its dependencies changed: the
\* cleanup clears the timer of the previous run, then the body arms a new one
\* unless there is no file or no metadata.
AutoCompressEffect(pending, f, url, meta, q, t) ==
    IF f = Null \/ meta = Null THEN {} ELSE {Closure(f, url, meta, q, t)}

\* the component after its first render
Constructed ==
    /\ status = "idle"
    /\ error = NoError
    /\ file = Null
    /\ originalUrl = NoUrl
    /\ originalMeta = Null
    /\ compressed = Null
    /\ quality = DefaultQuality
    /\ progress = 0
    /\ outType = "image/jpeg"
    /\ jobRef = 0
    /\ progressTimerRef = NoUrl
    /\ intervals = {}
    /\ progressResets = 0
    /\ debounce = {}
    /\ probes = {}
    /\ jobs = {}
    /\ live = {}
    /\ revokedTwice = {}
    /\ nextUrl = 1
    /\ events = 0
    /\ outcome = [t \in 1..MaxJobs |-> "none"]
    /\ burst = 0
    /\ mounted = TRUE

Init ==
    /\ Constructed
    /\ call = Null
    /\ ret = Null

(******************************* handleFiles *******************************)
\* faulty variant: a rejected selection also clears the result and the status
handleFilesRejected_Disarms(arr) ==
    /\ FindAccepted(arr, 1) = 0
    /\ events < MaxEvents
    /\ error' = UnsupportedMsg
    /\ events' = events + 1
    /\ compressed' = Null
    /\ status' = "idle"
    /\ UNCHANGED <<outcome, file, originalUrl, originalMeta, quality,
                   progress, outType, jobRef, progressTimerRef, intervals,
                   progressResets, debounce, probes, jobs, live, revokedTwice,
                   nextUrl, burst>>

\* handleFiles with no accepted file in the list: only the message is set.
handleFilesRejected(arr) ==
    /\ FindAccepted(arr, 1) = 0
    /\ events < MaxEvents
    /\ error' = UnsupportedMsg
    /\ events' = events + 1
    /\ UNCHANGED <<outcome, status, file, originalUrl, originalMeta, compressed,
                   quality, progress, outType, jobRef, progressTimerRef,
                   intervals, progressResets, debounce, probes, jobs, live,
                   revokedTwice, nextUrl, burst>>

\* faulty variant: a valid selection clears the result but leaves status as it is
handleFilesAccepted_KeepsStatus(arr) ==
    /\ FindAccepted(arr, 1) # 0
    /\ events < MaxEvents
    /\ LET picked == [id |-> nextUrl] @@ arr[FindAccepted(arr, 1)]
           objUrl == nextUrl
           t == pickOutputType(picked.type)
       IN /\ error' = NoError
          /\ revokedTwice' =
                TwiceAfterRevoke(
                    TwiceAfterRevoke(revokedTwice, live, originalUrl),
                    LiveAfterRevoke(live, originalUrl), CompressedUrl(compressed))
          /\ live' = LiveAfterRevoke(LiveAfterRevoke(live, originalUrl),
                                     CompressedUrl(compressed)) \cup {objUrl}
          /\ nextUrl' = nextUrl + 1
          /\ file' = picked
          /\ originalUrl' = objUrl
          /\ compressed' = Null
          /\ outType' = t
          /\ probes' = probes \cup
                {[file |-> picked, url |-> objUrl, stage |-> "bitmap", urlOk |-> TRUE]}
          /\ debounce' = AutoCompressEffect(debounce, picked, objUrl, originalMeta,
                                            quality, t)
    /\ events' = events + 1
    /\ burst' = 0
    /\ UNCHANGED <<outcome, status, originalMeta, quality, progress, jobRef,
                   progressTimerRef, intervals, progressResets, jobs>>

\* handleFiles up to its first await: the old URLs are revoked, the new source is
\* installed, the result is cleared and the probe starts. originalMeta is not
\* touched; the effect re-runs because file, outType and compress changed.
\* The File object is told apart from earlier ones by id, the number of the
\* object URL created for it.
handleFilesAccepted(arr) ==
    /\ FindAccepted(arr, 1) # 0
    /\ events < MaxEvents
    /\ LET picked == [id |-> nextUrl] @@ arr[FindAccepted(arr, 1)]
           objUrl == nextUrl
           t == pickOutputType(picked.type)
       IN /\ error' = NoError
          /\ revokedTwice' =
                TwiceAfterRevoke(
                    TwiceAfterRevoke(revokedTwice, live, originalUrl),
                    LiveAfterRevoke(live, originalUrl), CompressedUrl(compressed))
          /\ live' = LiveAfterRevoke(LiveAfterRevoke(live, originalUrl),
                                     CompressedUrl(compressed)) \cup {objUrl}
          /\ nextUrl' = nextUrl + 1
          /\ file' = picked
          /\ originalUrl' = objUrl
          /\ compressed' = Null
          /\ status' = "ready"
          /\ outType' = t
          /\ probes' = probes \cup
                {[file |-> picked, url |-> objUrl, stage |-> "bitmap", urlOk |-> TRUE]}
          /\ debounce' = AutoCompressEffect(debounce, picked, objUrl, originalMeta,
                                            quality, t)
    /\ events' = events + 1
    /\ burst' = 0
    /\ UNCHANGED <<outcome, originalMeta, quality, progress, jobRef,
                   progressTimerRef, intervals, progressResets, jobs>>

handleFiles(arr) == handleFilesRejected(arr) \/ handleFilesAccepted(arr)

\* setOriginalMeta at the end of handleFiles; a new object, so the effect re-runs.
\* The field "of" records which File the metadata was read from.
ProbeDone(p, w, h) ==
    /\ originalMeta' = [of |-> p.file.id, name |-> p.file.name, type |-> p.file.type,
                        size |-> p.file.size, width |-> w, height |-> h]
    /\ probes' = probes \ {p}
    /\ debounce' = AutoCompressEffect(debounce, file, originalUrl, originalMeta',
                                      quality, outType)
    /\ burst' = 0
    /\ UNCHANGED <<outcome, status, error, file, originalUrl, compressed, quality,
                   progress, outType, jobRef, progressTimerRef, intervals,
                   progressResets, jobs, live, revokedTwice, nextUrl, events>>

\* createImageBitmap(picked) resolves
ProbeBitmapOk(p) ==
    /\ p \in probes /\ p.stage = "bitmap"
    /\ ProbeDone(p, p.file.width, p.file.height)

\* createImageBitmap(picked) rejects: the Image element starts loading objUrl,
\* which can only load while the URL has not been revoked.
ProbeBitmapFail(p) ==
    /\ p \in probes /\ p.stage = "bitmap"
    /\ probes' = (probes \ {p}) \cup
            {[p EXCEPT !.stage = "image", !.urlOk = (p.url \in live)]}
    /\ UNCHANGED <<outcome, reactState, jobRef, progressTimerRef, intervals,
                   progressResets, debounce, jobs, live, revokedTwice, nextUrl,
                   events, burst>>

\* im.onload
ProbeImageOk(p) ==
    /\ p \in probes /\ p.stage = "image" /\ p.urlOk
    /\ ProbeDone(p, p.file.width, p.file.height)

\* faulty variant: the failure of both decode paths is reported as an error and
\* no metadata is recorded
ProbeImageFail_Propagates(p) ==
    /\ p \in probes /\ p.stage = "image"
    /\ probes' = probes \ {p}
    /\ status' = "error"
    /\ error' = LoadFailedMsg
    /\ UNCHANGED <<outcome, file, originalUrl, originalMeta, compressed, quality,
                   progress, outType, jobRef, progressTimerRef, intervals,
                   progressResets, debounce, jobs, live, revokedTwice, nextUrl,
                   events, burst>>

\* im.onerror: the outer catch keeps 0 x 0
ProbeImageFail(p) ==
    /\ p \in probes /\ p.stage = "image"
    /\ ProbeDone(p, 0, 0)

(***************************** the controls ********************************)
\* The quality slider and presets; rendered only while originalMeta is set.
\* Setting the value it already has changes no state and runs no effect.
setQuality(q) ==
    /\ originalMeta # Null
    /\ q # quality
    /\ events < MaxEvents
    /\ quality' = q
    /\ debounce' = AutoCompressEffect(debounce, file, originalUrl, originalMeta,
                                      q, outType)
    /\ burst' = IF debounce' = {} THEN 0
                ELSE IF debounce # {} THEN Min(burst + 1, MaxBurst) ELSE 1
    /\ events' = events + 1
    /\ UNCHANGED <<outcome, status, error, file, originalUrl, originalMeta, compressed,
                   progress, outType, jobRef, progressTimerRef, intervals,
                   progressResets, probes, jobs, live, revokedTwice, nextUrl>>

\* The output format buttons; rendered only while originalMeta is set.
setOutType(t) ==
    /\ originalMeta # Null
    /\ t # outType
    /\ events < MaxEvents
    /\ outType' = t
    /\ debounce' = AutoCompressEffect(debounce, file, originalUrl, originalMeta,
                                      quality, t)
    /\ burst' = IF debounce' = {} THEN 0
                ELSE IF debounce # {} THEN Min(burst + 1, MaxBurst) ELSE 1
    /\ events' = events + 1
    /\ UNCHANGED <<outcome, status, error, file, originalUrl, originalMeta, compressed,
                   quality, progress, jobRef, progressTimerRef, intervals,
                   progressResets, probes, jobs, live, revokedTwice, nextUrl>>

\* The Reset button; rendered only while originalMeta is set. jobRef, the progress
\* timer, the probes and the jobs in flight are not touched.
resetAll ==
    /\ originalMeta # Null
    /\ events < MaxEvents
    /\ events' = events + 1
    /\ revokedTwice' =
          TwiceAfterRevoke(
              TwiceAfterRevoke(revokedTwice, live, originalUrl),
              LiveAfterRevoke(live, originalUrl), CompressedUrl(compressed))
    /\ live' = LiveAfterRevoke(LiveAfterRevoke(live, originalUrl),
                               CompressedUrl(compressed))
    /\ file' = Null
    /\ originalUrl' = NoUrl
    /\ originalMeta' = Null
    /\ compressed' = Null
    /\ quality' = DefaultQuality
    /\ progress' = 0
    /\ error' = NoError
    /\ outType' = "image/jpeg"
    /\ status' = "idle"
    /\ debounce' = AutoCompressEffect(debounce, Null, NoUrl, Null, DefaultQuality,
                                      "image/jpeg")
    /\ burst' = 0
    /\ UNCHANGED <<outcome, jobRef, progressTimerRef, intervals, progressResets, probes,
                   jobs, nextUrl>>

(*************************** simulated progress ****************************)
\* resetProgressTimer: the interval the ref names is cleared
IntervalsAfterReset(ivs, ref) == IF ref # NoUrl THEN ivs \ {ref} ELSE ivs

\* startSimulatedProgress; id is the id setInterval returns
startSimulatedProgress(id) ==
    /\ intervals' = IntervalsAfterReset(intervals, progressTimerRef) \cup {id}
    /\ progressTimerRef' = id
    /\ progress' = ProgressStart

stopSimulatedProgress ==
    /\ intervals' = IntervalsAfterReset(intervals, progressTimerRef)
    /\ progressTimerRef' = NoUrl
    /\ progress' = ProgressDone
    /\ progressResets' = progressResets + 1

\* the whole steps Math.random() * 12 is sampled at
TickSteps == {MaxTickStep}

\* one tick of a running interval
ProgressTick(id, d) ==
    /\ id \in intervals
    /\ progress' = Min(progress + d, ProgressCap)
    /\ UNCHANGED <<outcome, status, error, file, originalUrl, originalMeta, compressed,
                   quality, outType, jobRef, progressTimerRef, intervals,
                   progressResets, debounce, probes, jobs, live, revokedTwice,
                   nextUrl, events, burst>>

\* setTimeout(() => setProgress(0), 600) fires
ProgressResetFire ==
    /\ progressResets > 0
    /\ progress' = 0
    /\ progressResets' = progressResets - 1
    /\ UNCHANGED <<outcome, status, error, file, originalUrl, originalMeta, compressed,
                   quality, outType, jobRef, progressTimerRef, intervals,
                   debounce, probes, jobs, live, revokedTwice, nextUrl,
                   events, burst>>

(********************************* compress ********************************)
\* The debounce timer fires and calls compress(quality) of the render that armed
\* it: compress up to its first await. The interval is named after the job it
\* is started for.
compressStart(c) ==
    /\ c \in debounce
    /\ jobRef < MaxJobs
    /\ c.file # Null /\ c.meta # Null
    /\ debounce' = debounce \ {c}
    /\ status' = "compressing"
    /\ startSimulatedProgress(jobRef + 1)
    /\ jobRef' = jobRef + 1
    /\ jobs' = jobs \cup
          {[tok |-> jobRef + 1, file |-> c.file, url |-> c.url, meta |-> c.meta,
            q |-> c.q, type |-> c.type, stage |-> "bitmap", urlOk |-> TRUE,
            w |-> 0, h |-> 0]}
    /\ outcome' = [outcome EXCEPT ![jobRef + 1] = "running"]
    /\ UNCHANGED <<error, file, originalUrl, originalMeta, compressed, quality,
                   outType, progressResets, probes, live, revokedTwice, nextUrl,
                   events, burst>>

\* faulty variant: the token check is missing
Superseded_Never(j) == FALSE

\* "if (jobRef.current !== myJob) return"
Superseded(j) == jobRef # j.tok

\* faulty variant: the quality is clamped to [0, 1]
q01_FloorZero(q) == Min(100, Max(0, q))

\* Math.min(1, Math.max(0.05, q / 100)), in hundredths
q01(q) == Min(100, Max(5, q))

\* The canvas of a job: allocated max(1, w) x max(1, h); fillRect(0, 0, w, h)
\* in white when the job's format is JPEG, none otherwise; then
\* drawImage(source, 0, 0, w, h).
Canvas(type, w, h) ==
    [width |-> Max(1, w), height |-> Max(1, h),
     fill |-> IF type = "image/jpeg" THEN [w |-> w, h |-> h] ELSE Null,
     draw |-> [w |-> w, h |-> h]]

\* The source is decoded (dimensions sw x sh), the canvas is drawn and
\* canvasToBlob(canvas, outType, q01) is awaited.
Rendered(j, sw, sh) ==
    [canvas |-> Canvas(j.type, computeTargetSize(sw, sh).w,
                       computeTargetSize(sw, sh).h),
     q01 |-> q01(j.q)]
    @@ [j EXCEPT !.stage = "encode",
                 !.w = computeTargetSize(sw, sh).w,
                 !.h = computeTargetSize(sw, sh).h]

JobAdvance(j, j2) ==
    /\ jobs' = (jobs \ {j}) \cup {j2}
    /\ UNCHANGED <<outcome, reactState, jobRef, progressTimerRef, intervals,
                   progressResets, debounce, probes, live, revokedTwice, nextUrl,
                   events, burst>>

\* faulty variant: the catch block also discards the installed result
compressFailed_DropsResult(j, msg) ==
    /\ jobs' = jobs \ {j}
    /\ stopSimulatedProgress
    /\ status' = "error"
    /\ error' = msg
    /\ outcome' = [outcome EXCEPT ![j.tok] = "failed"]
    /\ live' = LiveAfterRevoke(live, CompressedUrl(compressed))
    /\ compressed' = Null
    /\ UNCHANGED <<file, originalUrl, originalMeta, quality, outType,
                   jobRef, debounce, probes, revokedTwice, nextUrl,
                   events, burst>>

\* The catch block of compress: no token check.
compressFailed(j, msg) ==
    /\ jobs' = jobs \ {j}
    /\ stopSimulatedProgress
    /\ status' = "error"
    /\ error' = msg
    /\ outcome' = [outcome EXCEPT ![j.tok] = "failed"]
    /\ UNCHANGED <<file, originalUrl, originalMeta, compressed, quality, outType,
                   jobRef, debounce, probes, live, revokedTwice, nextUrl,
                   events, burst>>

\* canvasToBlob resolved: the token check, then the result is installed (the
\* updater revokes the previous result's URL). The blob is represented by what
\* it was made from: the job, its file, its quality and its format.
compressResolved(j) ==
    /\ jobs' = jobs \ {j}
    /\ IF Superseded(j)
       THEN /\ outcome' = [outcome EXCEPT ![j.tok] = "dropped"]
            /\ UNCHANGED <<reactState, jobRef, progressTimerRef, intervals,
                           progressResets, debounce, probes, live, revokedTwice,
                           nextUrl, events, burst>>
       ELSE /\ nextUrl' = nextUrl + 1
            /\ revokedTwice' =
                  TwiceAfterRevoke(revokedTwice, live, CompressedUrl(compressed))
            /\ live' = LiveAfterRevoke(live, CompressedUrl(compressed))
                          \cup {nextUrl}
            /\ compressed' =
                  [blob |-> [tok |-> j.tok, file |-> j.file.id, q |-> j.q,
                             type |-> j.type],
                   url |-> nextUrl, type |-> j.type, width |-> j.w, height |-> j.h]
            /\ stopSimulatedProgress
            /\ status' = "done"
            /\ outcome' = [outcome EXCEPT ![j.tok] = "applied"]
            /\ UNCHANGED <<error, file, originalUrl, originalMeta, quality,
                           outType, jobRef, debounce, probes, events, burst>>

\* createImageBitmap(file) resolves and getContext("2d") returns a context
JobBitmapOk(j) ==
    /\ j \in jobs /\ j.stage = "bitmap"
    /\ JobAdvance(j, Rendered(j, OrElse(j.file.width, j.meta.width),
                                 OrElse(j.file.height, j.meta.height)))

\* createImageBitmap(file) rejects: the Image element starts loading originalUrl
JobBitmapFail(j) ==
    /\ j \in jobs /\ j.stage = "bitmap"
    /\ JobAdvance(j, [j EXCEPT !.stage = "image", !.urlOk = (j.url \in live)])

\* im.onload and getContext("2d") returns a context
JobImageOk(j) ==
    /\ j \in jobs /\ j.stage = "image" /\ j.urlOk
    /\ JobAdvance(j, Rendered(j, OrElse(j.file.width, j.meta.width),
                                 OrElse(j.file.height, j.meta.height)))

\* im.onerror
JobImageFail(j) ==
    /\ j \in jobs /\ j.stage = "image"
    /\ compressFailed(j, LoadFailedMsg)

\* the source is decoded on either path but getContext("2d") returns null
JobNoContext(j) ==
    /\ j \in jobs
    /\ j.stage = "bitmap" \/ (j.stage = "image" /\ j.urlOk)
    /\ compressFailed(j, NoCanvasMsg)

\* await canvasToBlob(canvas, outType, q01) resolves with a payload
JobEncodeOk(j) ==
    /\ j \in jobs /\ j.stage = "encode"
    /\ compressResolved(j)

\* await canvasToBlob(canvas, outType, q01) rejects
JobEncodeFail(j) ==
    /\ j \in jobs /\ j.stage = "encode"
    /\ compressFailed(j, FetchFailedMsg)

(********************************* unmount *********************************)
\* The cleanup of the mount effect (dependency list []): its closure is the one
\* of the first render, in which originalUrl and compressed are null, so the two
\* guarded revocations see null; resetProgressTimer reads the ref. React also
\* runs the cleanup of the auto-compress effect, which clears the debounce
\* timer. Nothing of the component runs afterwards.
Unmount ==
    /\ mounted
    /\ mounted' = FALSE
    /\ revokedTwice' =
          TwiceAfterRevoke(
              TwiceAfterRevoke(revokedTwice, live, NoUrl),
              LiveAfterRevoke(live, NoUrl), CompressedUrl(Null))
    /\ live' = LiveAfterRevoke(LiveAfterRevoke(live, NoUrl), CompressedUrl(Null))
    /\ intervals' = IntervalsAfterReset(intervals, progressTimerRef)
    /\ progressTimerRef' = NoUrl
    /\ debounce' = {}
    /\ UNCHANGED <<reactState, jobRef, progressResets, probes, jobs, nextUrl,
                   events, outcome, burst, call, ret>>

\* a handler, callback or continuation of the mounted component
WhileMounted(A) == mounted /\ A /\ UNCHANGED <<mounted, call, ret>>

Next ==
    \/ \E arr \in FileLists : WhileMounted(handleFiles(arr))
    \/ \E p \in probes : WhileMounted(ProbeBitmapOk(p))
    \/ \E p \in probes : WhileMounted(ProbeBitmapFail(p))
    \/ \E p \in probes : WhileMounted(ProbeImageOk(p))
    \/ \E p \in probes : WhileMounted(ProbeImageFail(p))
    \/ \E q \in Qualities : WhileMounted(setQuality(q))
    \/ \E t \in OutputTypes : WhileMounted(setOutType(t))
    \/ WhileMounted(resetAll)
    \/ \E c \in debounce : WhileMounted(compressStart(c))
    \/ \E j \in jobs : WhileMounted(JobBitmapOk(j))
    \/ \E j \in jobs : WhileMounted(JobBitmapFail(j))
    \/ \E j \in jobs : WhileMounted(JobImageOk(j))
    \/ \E j \in jobs : WhileMounted(JobImageFail(j))
    \/ \E j \in jobs : WhileMounted(JobNoContext(j))
    \/ \E j \in jobs : WhileMounted(JobEncodeOk(j))
    \/ \E j \in jobs : WhileMounted(JobEncodeFail(j))
    \/ \E id \in intervals, d \in TickSteps : WhileMounted(ProgressTick(id, d))
    \/ WhileMounted(ProgressResetFire)
    \/ Unmount

Spec == Init /\ [][Next]_vars

(***************************************************************************)
(* The functions of the component taken on their own: one call, its        *)
(* arguments drawn from the sets below, run to its return.                 *)
(***************************************************************************)
\* widths and heights handed to computeTargetSize
Dimensions == {0, 1, 1000, 2000, 4095, 4096, 4097, 5000, 8000, 9000}

\* pixel sizes of decoded sources
SourceDimensions == {1, 500, 2000, 4096, 8000, 9000}

\* quality percents handed to compress
QualityInputs == (0 - QualitySlack)..(100 + QualitySlack)

Calls ==
    {[fn |-> "computeTargetSize", w |-> w, h |-> h] :
        w \in Dimensions, h \in Dimensions}
    \cup {[fn |-> "compress", sw |-> sw, sh |-> sh, type |-> t, q |-> q] :
            sw \in SourceDimensions, sh \in SourceDimensions,
            t \in OutputTypes, q \in QualityInputs}
    \cup {[fn |-> "canvasToBlob"]}

FnInit ==
    /\ Constructed
    /\ call \in Calls
    /\ ret = Null

\* computeTargetSize(w, h) returns
CallComputeTargetSize ==
    /\ call.fn = "computeTargetSize"
    /\ ret = Null
    /\ ret' = computeTargetSize(call.w, call.h)
    /\ UNCHANGED <<component, call>>

\* compress(q) from the decoded source to the await of canvasToBlob
CallRender ==
    /\ call.fn = "compress"
    /\ ret = Null
    /\ ret' = Rendered([tok |-> 1, q |-> call.q, type |-> call.type,
                        stage |-> "bitmap", w |-> 0, h |-> 0],
                       call.sw, call.sh)
    /\ UNCHANGED <<component, call>>

\* canvasToBlob: what has been called so far, in order, and where it stands
\* (suspended at the await of fetch, resolved with a blob, or rejected).
\* canvas.toBlob calls back with a blob
ToBlobPayload ==
    /\ call.fn = "canvasToBlob"
    /\ ret = Null
    /\ ret' = [state |-> "resolved", tried |-> <<"toBlob">>]
    /\ UNCHANGED <<component, call>>

\* canvas.toBlob calls back with null: toDataURL, then fetch is awaited
ToBlobNull ==
    /\ call.fn = "canvasToBlob"
    /\ ret = Null
    /\ ret' = [state |-> "fetch", tried |-> <<"toBlob", "toDataURL">>]
    /\ UNCHANGED <<component, call>>

\* canvas.toBlob throws inside the promise executor: the promise rejects and
\* the await rethrows
ToBlobThrows ==
    /\ call.fn = "canvasToBlob"
    /\ ret = Null
    /\ ret' = [state |-> "rejected", tried |-> <<"toBlob">>]
    /\ UNCHANGED <<component, call>>

\* fetch(dataUrl) and res.blob() resolve
FetchOk ==
    /\ call.fn = "canvasToBlob"
    /\ ret # Null /\ ret.state = "fetch"
    /\ ret' = [ret EXCEPT !.state = "resolved"]
    /\ UNCHANGED <<component, call>>

\* fetch(dataUrl) or res.blob() rejects
FetchFail ==
    /\ call.fn = "canvasToBlob"
    /\ ret # Null /\ ret.state = "fetch"
    /\ ret' = [ret EXCEPT !.state = "rejected"]
    /\ UNCHANGED <<component, call>>

FnNext ==
    \/ CallComputeTargetSize
    \/ CallRender
    \/ ToBlobPayload
    \/ ToBlobNull
    \/ ToBlobThrows
    \/ FetchOk
    \/ FetchFail

FnSpec == FnInit /\ [][FnNext]_vars

(***************************************************************************)
(*                               properties                                *)
(***************************************************************************)
\* the mounted component has nothing pending: no debounce timer, no probe, no job
Quiescent == mounted /\ debounce = {} /\ probes = {} /\ jobs = {}

\* no file of an accepted mime type in the list
NoneAccepted(arr) == \A i \in 1..Len(arr) : arr[i].type \notin ACCEPTED_TYPES

\* this step retires job t as a failure
FailureOf(t) == outcome[t] = "running" /\ outcome'[t] = "failed"

\* C1: last request wins. Job tokens only grow, and every step that installs a
\* CompressionResult installs the result of the job whose token is the latest
\* issued: the result of a job t1 is never installed once a job t2 > t1 has been
\* issued, whichever of the two completes first.
C1_LastRequestWins ==
    [][ /\ jobRef' >= jobRef
        /\ (compressed' # compressed /\ compressed' # Null)
              => compressed'.blob.tok = jobRef'
        /\ \A j \in jobs : (j \notin jobs' /\ j.tok < jobRef)
              => compressed' = compressed ]_vars

\* C1 witness: job 1 resolved after job 2 was issued and was dropped, and the
\* installed result is job 2's.
C1_Witness ==
    /\ jobRef = 2
    /\ outcome[1] = "dropped"
    /\ outcome[2] = "applied"
    /\ compressed # Null /\ compressed.blob.tok = 2

\* C2: the failure of a superseded job (its token is no longer the latest
\* issued) changes neither status nor the error message nor the progress value
\* nor the progress timer.
C2_SupersededFailureSuppressed ==
    [][ \A t \in 1..MaxJobs : (FailureOf(t) /\ t # jobRef)
            => UNCHANGED <<status, error, progress, progressTimerRef, intervals>>
      ]_vars

\* C3: once another file has been selected, a job issued for the earlier file
\* neither installs a CompressionResult nor changes status when it completes.
C3_OldFileResultDropped ==
    [][ \A j \in jobs : (j \notin jobs' /\ file # Null /\ j.file.id # file.id)
            => (compressed' = compressed /\ status' = status) ]_vars

\* C4: once another file has been selected, the completion of the earlier
\* file's dimension probe leaves the source metadata unchanged.
C4_StaleProbeIgnored ==
    [][ \A p \in probes : (p \notin probes' /\ file # Null /\ p.file.id # file.id)
            => originalMeta' = originalMeta ]_vars

\* C5: debounce. At most one debounce timer is pending and it holds the current
\* file, quality and output format; a change of quality or format starts no
\* job; the timer firing starts exactly one job, with the quality and format
\* of the last change, and leaves no timer behind.
C5_Debounce ==
    /\ [](/\ Cardinality(debounce) <= 1
          /\ \A c \in debounce :
                c.file = file /\ c.q = quality /\ c.type = outType)
    /\ [][ /\ (quality' # quality \/ outType' # outType) => jobRef' = jobRef
           /\ jobRef' # jobRef =>
                /\ jobRef' = jobRef + 1
                /\ debounce' = {}
                /\ \E j \in jobs' \ jobs :
                      /\ jobs' = jobs \cup {j}
                      /\ j.tok = jobRef' /\ j.q = quality /\ j.type = outType
         ]_vars

\* C5 witness: quality or format was changed twice while the timer was pending,
\* the timer fired, and the one job issued so far runs with the last settings.
C5_Witness ==
    /\ burst = 2
    /\ debounce = {}
    /\ jobRef = 1
    /\ \E j \in jobs : j.tok = 1 /\ j.q = quality /\ j.type = outType
    /\ quality # DefaultQuality

\* C6: convergence. When a source is selected and nothing is pending, status is
\* done or error, and if done the installed result is the one of the latest
\* job, issued for the current file, quality and output format.
C6_Convergence ==
    (Quiescent /\ file # Null) =>
        /\ status \in {"done", "error"}
        /\ status = "done" =>
              /\ compressed # Null
              /\ compressed.blob = [tok |-> jobRef, file |-> file.id,
                                    q |-> quality, type |-> outType]

\* C6 witness: two jobs were issued, after a change of quality, and the
\* pipeline has come to rest on the result of the second.
C6_Witness ==
    /\ Quiescent /\ file # Null
    /\ status = "done"
    /\ jobRef = 2
    /\ quality # DefaultQuality
    /\ compressed # Null /\ compressed.blob.tok = 2

\* the state a reset is to leave behind
ResetState ==
    /\ status = "idle"
    /\ file = Null /\ originalUrl = NoUrl /\ originalMeta = Null
    /\ compressed = Null
    /\ live = {}
    /\ quality = DefaultQuality
    /\ outType = "image/jpeg"

\* C7: a reset leaves the pipeline idle with no source, no metadata, no result,
\* no live handle and the default settings, and every later step that is not a
\* valid selection keeps it so.
C7_ResetHolds ==
    [][ /\ resetAll => ResetState'
        /\ (ResetState /\ file' = Null) => ResetState' ]_vars

\* C8: selecting a file list with no file of an accepted type sets the error
\* message and changes nothing else: status, source, metadata, result, quality,
\* format, job token and live handles stay, no timer is armed, no probe and no
\* job is started.
C8_RejectedSelectionFrame ==
    [][ \A arr \in FileLists : (NoneAccepted(arr) /\ handleFiles(arr))
            => /\ error' = UnsupportedMsg
               /\ UNCHANGED <<status, file, originalUrl, originalMeta, compressed,
                              quality, outType, progress, jobRef, live, revokedTwice,
                              debounce, probes, jobs, progressTimerRef, intervals>>
      ]_vars

\* C8 witness: the message of a rejected selection stands beside a finished
\* result that is still installed.
C8_Witness ==
    /\ error = UnsupportedMsg
    /\ status = "done"
    /\ compressed # Null /\ compressed.url \in live
    /\ file # Null

\* C9: when the failure of the latest job is applied, status becomes error, a
\* message is recorded, and the installed result stays with its URL live.
C9_AppliedFailureKeepsResult ==
    [][ \A t \in 1..MaxJobs : (FailureOf(t) /\ t = jobRef)
            => /\ status' = "error"
               /\ error' \in JobMessages
               /\ compressed' = compressed
               /\ live' = live
               /\ compressed # Null => compressed.url \in live' ]_vars

\* C9 witness: job 1 installed its result, job 2 was the latest when it failed,
\* and the result of job 1 is still installed and live.
C9_Witness ==
    /\ jobRef = 2
    /\ outcome[1] = "applied"
    /\ outcome[2] = "failed"
    /\ status = "error"
    /\ error \in JobMessages
    /\ compressed # Null /\ compressed.blob.tok = 1 /\ compressed.url \in live

\* the resources on display: none without a source, the source preview alone,
\* or the source and the result previews
DisplayedResources ==
    IF file = Null THEN 0 ELSE IF compressed = Null THEN 1 ELSE 2

\* C10: resource accounting. The number of live object URLs equals the number
\* of displayed resources (0 when idle), and no URL is revoked twice.
C10_ResourceAccounting ==
    /\ Cardinality(live) = DisplayedResources
    /\ status = "idle" => live = {}
    /\ revokedTwice = {}

\* C11: on unmount every object URL live at that moment, of the current source
\* and of the current result, is released, and none is released twice: once the
\* component is unmounted no URL is live and none was revoked twice.
C11_TeardownReleasesAll ==
    ~mounted => (live = {} /\ revokedTwice = {})

\* out is an integer nearest to n / d
Nearest(out, n, d) == 2 * out * d - 2 * n <= d /\ 2 * n - 2 * out * d <= d

\* computeTargetSize has returned from a call with arguments w, h
Sized == call.fn = "computeTargetSize" /\ ret # Null

\* C12: for all (w, h) with max(w, h) <= 4096, w = 0 or h = 0 included,
\* computeTargetSize returns (w, h) unchanged.
C12_WithinLimitUnchanged ==
    (Sized /\ Max(call.w, call.h) <= MAX_DIMENSION)
        => ret = [w |-> call.w, h |-> call.h]

\* C12 witness: a call with a zero side and the other side at the limit has
\* returned its arguments.
C12_Witness ==
    /\ Sized /\ call.w = 0 /\ call.h = MAX_DIMENSION
    /\ ret = [w |-> 0, h |-> MAX_DIMENSION]

\* the larger side of the result is 4096 and the other side is the source's
\* other side times 4096 / max(w, h), rounded to a nearest integer
ScaledToLimit ==
    IF call.w >= call.h
    THEN /\ ret.w = MAX_DIMENSION
         /\ Nearest(ret.h, call.h * MAX_DIMENSION, call.w)
    ELSE /\ ret.h = MAX_DIMENSION
         /\ Nearest(ret.w, call.w * MAX_DIMENSION, call.h)

\* C13 as stated: for all (w, h) with max(w, h) > 4096 the result is the source
\* scaled to the limit.
C13_OverLimitScaled ==
    (Sized /\ Max(call.w, call.h) > MAX_DIMENSION) => ScaledToLimit

\* C13 amended: for all (w, h) with w > 0, h > 0 and max(w, h) > 4096 the result
\* is the source scaled to the limit; a source with a zero side is returned
\* unchanged whatever its other side.
C13_PositiveOverLimitScaled ==
    /\ (Sized /\ call.w > 0 /\ call.h > 0 /\ Max(call.w, call.h) > MAX_DIMENSION)
          => ScaledToLimit
    /\ (Sized /\ (call.w = 0 \/ call.h = 0))
          => ret = [w |-> call.w, h |-> call.h]

\* C13 witness: 8000 x 2000 has been scaled to 4096 x 1024.
C13_Witness ==
    /\ Sized /\ call.w = 8000 /\ call.h = 2000
    /\ ret = [w |-> 4096, h |-> 1024]

\* compress has drawn its canvas and reached the await of canvasToBlob
Drawn == call.fn = "compress" /\ ret # Null

\* C14: for every quality percent q handed to a job, the quality handed to the
\* encoder is min(1, max(0.05, q / 100)): within [0.05, 1], q / 100 when that
\* lies in the interval, the nearer end otherwise (values in hundredths).
C14_QualityClamped ==
    Drawn => /\ ret.q01 >= 5 /\ ret.q01 <= 100
             /\ (call.q >= 5 /\ call.q <= 100) => ret.q01 = call.q
             /\ call.q < 5 => ret.q01 = 5
             /\ call.q > 100 => ret.q01 = 100

\* C14 witness: a job handed a quality percent of 0 or less has handed 0.05 to
\* the encoder.
C14_Witness == Drawn /\ call.q <= 0 /\ ret.q01 = 5

\* C19: for a job whose format is JPEG the whole canvas is filled with white
\* before the source is drawn; for PNG, WEBP and AVIF nothing is filled.
C19_JpegWhiteFill ==
    Drawn =>
        IF call.type = "image/jpeg"
        THEN ret.canvas.fill =
                [w |-> ret.canvas.width, h |-> ret.canvas.height]
        ELSE ret.canvas.fill = Null

\* C20: canvas.toBlob is tried first, toDataURL exactly when toBlob yielded no
\* payload, and canvasToBlob rejects only after both have been tried.
C20_BothPathsBeforeFailure ==
    (call.fn = "canvasToBlob" /\ ret # Null) =>
        /\ ret.tried[1] = "toBlob"
        /\ ret.state = "rejected" => ret.tried = <<"toBlob", "toDataURL">>

\* this step starts a job
JobStarts == jobRef' # jobRef

\* this step retires a job (applied, dropped or failed)
JobCompletes == \E j \in jobs : j \notin jobs'

\* C15: every change of status is one of the specified edges:
\* idle|done|error -> ready on a valid selection, ready|done|error ->
\* compressing when a job starts, compressing -> done|error when a job
\* completes, anything -> idle on reset.
C15_StatusEdges ==
    [][ status' # status =>
          \/ /\ status' = "ready"
             /\ status \in {"idle", "done", "error"}
             /\ file' # file /\ file' # Null
          \/ /\ status' = "compressing"
             /\ status \in {"ready", "done", "error"}
             /\ JobStarts
          \/ /\ status' \in {"done", "error"}
             /\ status = "compressing"
             /\ JobCompletes
          \/ /\ status' = "idle"
             /\ resetAll ]_vars

\* C16: while status is compressing the progress value starts at 10, never
\* decreases and never exceeds 90; it becomes 100 only when the completion of
\* the latest job is applied; the delayed reset to 0 never fires while a job is
\* compressing.
C16_ProgressWhileCompressing ==
    /\ [](status = "compressing" => progress <= ProgressCap)
    /\ [][ /\ JobStarts => progress' = ProgressStart
           /\ (status = "compressing" /\ status' = "compressing" /\ ~JobStarts)
                 => progress' >= progress
           /\ (progress' = ProgressDone /\ progress # ProgressDone)
                 => \E t \in 1..MaxJobs :
                       /\ t = jobRef
                       /\ outcome[t] = "running"
                       /\ outcome'[t] \in {"applied", "failed"}
           /\ progressResets' < progressResets => status # "compressing"
         ]_vars

\* C17: the progress timer is stopped the instant its job completes, is
\* superseded or is discarded: no tick changes the progress value while status
\* is idle, ready, done or error.
C17_NoTickUnlessCompressing ==
    [][ (\E id \in intervals, d \in TickSteps : ProgressTick(id, d))
            => status = "compressing" ]_vars

C21_ResultMatchesCanvas ==
    (Drawn /\ call.sw > 0 /\ call.sh > 0) =>
        /\ ret.w >= 1 /\ ret.h >= 1
        /\ ret.w = ret.canvas.width /\ ret.h = ret.canvas.height
        /\ ret.canvas.draw = [w |-> ret.canvas.width, h |-> ret.canvas.height]

\* C22: a job-failure message does not outlive the failure: in status done no
\* job-failure message is set.
C22_NoFailureMessageWhenDone ==
    status = "done" => error \notin JobMessages

\* C23: status done implies a result is installed and its object URL is live;
\* status compressing implies a source file and its metadata are present.
C23_StatusInvariants ==
    /\ status = "done" => (compressed # Null /\ compressed.url \in live)
    /\ status = "compressing" => (file # Null /\ originalMeta # Null)

\* C23 witness: a second job is compressing for the selected file while the
\* result of the first, which had brought status to done, is still installed.
C23_Witness ==
    /\ status = "compressing" /\ jobRef = 2 /\ outcome[1] = "applied"
    /\ file # Null /\ originalMeta # Null
    /\ compressed # Null /\ compressed.url \in live
====
